---- MODULE Spec2Model ----
(***************************************************************************)
(* Model of Domotica.py: the background sensor poller (background_reader), *)
(* the automatic heating and light logic, set_output and the HTTP API      *)
(* handlers that share the global dictionary `latest`, the GPIO pins and   *)
(* io_lock.  Temperatures are in hundredths of a degree Celsius, voltages  *)
(* in millivolts, the poll interval in milliseconds, the clock in seconds. *)
(* Python's None is NoneVal.  The fields latest["temp_c"], latest["ts"],    *)
(* latest["saturated"] and latest["button_pressed"] are written by the     *)
(* poller and by api_measure but read only to fill a response, never by a  *)
(* decision; they are left out, and a response is kept only as far as a    *)
(* property reads it (the heater level api_status reports).                *)
(***************************************************************************)
EXTENDS Integers, Sequences, FiniteSets, TLC

VARIABLES
    hasBBIO,    \* HAS_BBIO: the BeagleBone libraries were imported
    interval,   \* background_reader's interval argument, in ms
    latest,     \* the global dictionary `latest`
    pin,        \* physical level of each output pin (the last successful GPIO.output)
    io_lock,    \* holder of io_lock, or Free
    now,        \* time.time(), in seconds
    poller,     \* the background_reader thread: position and locals
    handler,    \* the Flask request threads: position and locals
    threads,    \* the Flask request threads that serve requests
    env,        \* what the surroundings may do: sensor values, faults, passing time
    hist        \* history variables used only to state properties

vars == <<hasBBIO, interval, latest, pin, io_lock, now, poller, handler, threads, env, hist>>

----------------------------------------------------------------------------
\* Bounds of the model
MaxTime == 20        \* the clock stops advancing here
ClockStep == 10      \* seconds added by one clock step
MaxPress == 11       \* longest run of consecutive pressed button reads

\* Program constants
HEAT_ON_THRESHOLD == 2000
HEAT_OFF_THRESHOLD == 2100
BUTTON_PRESSED_MIN_S == 2000
DIV_R1 == 1000
DIV_R2 == 1000
CAL_FACTOR == 25
CAL_OFFSET == 0
SimTemperature == 2500
SimLight == 1
PulseBright == 10
PulseDark == 20
DefaultSamples == 5

NoneVal == -1
Free == "free"
Poller == "poller"
Handlers == {"h1", "h2"}
LedNames == {"led1", "led2"}

\* background_reader intervals explored: the one __main__ passes (200 ms), 1 s
\* and 2 s
Intervals == {200, 1000, 2000}

\* One temperature read is DefaultSamples ADC samples, in mV
ConstRun(v) == [i \in 1..DefaultSamples |-> v]
ADCRuns == { ConstRun(399),
             [i \in 1..DefaultSamples |-> IF i = DefaultSamples THEN 404 ELSE 399],
             ConstRun(420) }
\* a temperature read in which every ADC.read and ADC.read_raw raises
FailedRun == ConstRun(NoneVal)
PinReads == {0, 1, NoneVal}      \* GPIO.input: low, high, or raises
ToggleNames == {"led1", "led2"}
ToggleValues == {0, 1, 2}
CarValues == {0, 1}

----------------------------------------------------------------------------
\* Pure helpers

\* `1 if int(value) else 0`
Bit(v) == IF v # 0 THEN 1 ELSE 0

RECURSIVE SumSeq(_)
SumSeq(s) == IF s = <<>> THEN 0 ELSE Head(s) + SumSeq(Tail(s))

\* round to nearest of num/den, for num, den > 0 or num = 0
RoundDiv(num, den) == (2 * num + den) \div (2 * den)

\* read_lm35_temperature lines 90-101: the voltage appended for one sample;
\* when ADC.read and ADC.read_raw both raise it is 0.0
measured_v(sample) == IF sample = NoneVal THEN 0 ELSE sample

\* read_lm35_temperature on real hardware: mean of the samples, divider
\* compensation, LM35 conversion (10 mV per degree), calibration, round(.., 2)
read_lm35_temperature(samples) ==
    LET vals == [i \in DOMAIN samples |-> measured_v(samples[i])]
    IN  IF vals = <<>> THEN NoneVal
        ELSE LET num == SumSeq(vals) * (DIV_R1 + DIV_R2) * 10 * CAL_FACTOR
                 den == Len(vals) * DIV_R2 * 100
             IN  RoundDiv(num, den) + CAL_OFFSET

\* int(BUTTON_PRESSED_MIN_S / interval) if interval > 0 else 1
required_button_count(iv) == IF iv > 0 THEN BUTTON_PRESSED_MIN_S \div iv ELSE 1

\* Faulty variant (the properties below must notice it): a released button does not reset the counter
next_button_counter_no_reset(counter, btn) == IF btn THEN counter + 1 ELSE counter

\* background_reader lines 264-267
next_button_counter(counter, btn) == IF btn THEN counter + 1 ELSE 0

\* Faulty variant (the properties below must notice it): the car is detected one sample early
car_detected_early(counter, required) == counter >= required - 1

\* background_reader line 269
car_detected(counter, required) == counter >= required

\* Faulty variant (the properties below must notice it): car_parked follows the detector and is cleared when it does not fire
car_parked_follows_detector(parked, detected) == detected

\* background_reader lines 269-270: car_parked after the presence detector
car_parked_after_tick(parked, detected) == IF detected THEN TRUE ELSE parked

\* Faulty variant (the properties below must notice it): the manual override is not consulted
heating_ignores_override(override, temp) == temp # NoneVal

\* apply_heating_logic line 190-193: does the automatic logic go on to decide?
heating_may_act(override, temp) == (~override) /\ temp # NoneVal

\* Faulty variant (the properties below must notice it): the heater is also switched on at exactly HEAT_ON_THRESHOLD
heating_decision_inclusive(temp, led2) ==
    IF temp <= HEAT_ON_THRESHOLD /\ led2 = 0 THEN 1
    ELSE IF temp >= HEAT_OFF_THRESHOLD /\ led2 = 1 THEN 0
    ELSE NoneVal

\* apply_heating_logic lines 196-199: the value to write, or NoneVal for no write
heating_decision(temp, led2) ==
    IF temp < HEAT_ON_THRESHOLD /\ led2 = 0 THEN 1
    ELSE IF temp >= HEAT_OFF_THRESHOLD /\ led2 = 1 THEN 0
    ELSE NoneVal

\* Faulty variant (the properties below must notice it): an unknown light state is taken for bright
light_rule_unknown_as_bright(light_sensor, car, timer_until, ts) ==
    IF car /\ light_sensor = 1 THEN 1
    ELSE IF timer_until # 0 /\ timer_until > ts THEN 2
    ELSE IF light_sensor # 1 THEN 3
    ELSE IF light_sensor = 1 /\ ~car THEN 4
    ELSE 0

\* Faulty variant (the properties below must notice it): the last rule fires whenever no car is parked
light_rule_off_without_car(light_sensor, car, timer_until, ts) ==
    IF car /\ light_sensor = 1 THEN 1
    ELSE IF timer_until # 0 /\ timer_until > ts THEN 2
    ELSE IF light_sensor = 0 THEN 3
    ELSE IF ~car THEN 4
    ELSE 0

\* Faulty variant (the properties below must notice it): the bright-sensor rule is tried before the timer rule
light_rule_bright_first(light_sensor, car, timer_until, ts) ==
    IF car /\ light_sensor = 1 THEN 1
    ELSE IF light_sensor = 0 THEN 3
    ELSE IF timer_until # 0 /\ timer_until > ts THEN 2
    ELSE IF light_sensor = 1 /\ ~car THEN 4
    ELSE 0

\* apply_light_logic: the number of the first rule that matches, 0 for none
light_rule(light_sensor, car, timer_until, ts) ==
    IF car /\ light_sensor = 1 THEN 1
    ELSE IF timer_until # 0 /\ timer_until > ts THEN 2
    ELSE IF light_sensor = 0 THEN 3
    ELSE IF light_sensor = 1 /\ ~car THEN 4
    ELSE 0

\* the level each rule of apply_light_logic writes
light_rule_value(rule) == IF rule \in {1, 2} THEN 1 ELSE 0

\* Faulty variant (the properties below must notice it): the two pulse durations are exchanged
pulse_duration_swapped(light_sensor, car) ==
    IF light_sensor = 0 THEN PulseDark
    ELSE IF ~car THEN PulseBright
    ELSE 0

\* api_light_pulse lines 382-396: the pulse duration
pulse_duration(light_sensor, car) ==
    IF light_sensor = 0 THEN PulseBright
    ELSE IF ~car THEN PulseDark
    ELSE 0

\* api_car line 415
car_from_command(val) == ~(val # 0)

\* api_toggle line 357
override_from_toggle(value) == value = 1

----------------------------------------------------------------------------
\* Initial state

IdleHandler ==
    [pc |-> "idle", op |-> "none", value |-> 0, ok |-> TRUE, now |-> 0, dur |-> 0,
     l |-> NoneVal, led2 |-> NoneVal, settled |-> FALSE]

InitPoller ==
    [pc |-> "read_temp", t |-> NoneVal, l |-> NoneVal, btn |-> FALSE, ts |-> 0,
     button_counter |-> 0, value |-> NoneVal, rule |-> 0, wrote_car |-> FALSE,
     saw_override |-> FALSE]

InitHist ==
    [pressRun |-> 0,          \* consecutive pressed samples the poller has seen
     clearRun |-> 0,          \* the same, counted since the last explicit clear
     clearMet |-> FALSE,      \* a run >= required was seen since the last explicit clear
     parkedBy |-> "none",     \* who last wrote car_parked = True
     parkedRun |-> 0,         \* pressRun when the poller last wrote car_parked
     onSettled |-> FALSE,     \* a manual heater-on completed, no manual command since
     heatFailed |-> NoneVal,  \* level of the poller's last heater write, if it failed
     tickFailed |-> FALSE,    \* the poller's last tick ended in the except clause
     prevInputs |-> <<>>,     \* inputs of the previous evaluation of the two logics
     sameInputs |-> FALSE,    \* this evaluation has the inputs of the previous one
     adcFailed |-> FALSE]     \* every ADC sample of the tick's temperature read failed

InitState ==
    /\ hasBBIO \in BOOLEAN
    /\ latest = [light |-> NoneVal, car_parked |-> FALSE,
                 outputs |-> [led1 |-> 0, led2 |-> 0],
                 manual_override_heating |-> FALSE, light_timer_until |-> 0]
    /\ pin = [led1 |-> 0, led2 |-> 0]
    /\ io_lock = Free
    /\ now = 0
    /\ poller = InitPoller
    /\ handler = [h \in Handlers |-> IdleHandler]
    /\ hist = InitHist

LockFree == (~hasBBIO) \/ io_lock = Free

\* get_outputs_state: the pins read under io_lock; a faulting read falls back
\* to the cached level; without hardware, a copy of the cache
get_outputs_state(reads) ==
    IF ~hasBBIO THEN latest.outputs
    ELSE [n \in LedNames |-> IF reads[n] = NoneVal THEN latest.outputs[n] ELSE pin[n]]

----------------------------------------------------------------------------
\* Faulty variant (the properties below must notice it): io_lock is released between the pin write and the cache update
set_output_gpio_unlocked(self, name, value, ok) ==
    /\ io_lock = Free
    /\ UNCHANGED io_lock
    /\ IF ok THEN pin' = [pin EXCEPT ![name] = Bit(value)] ELSE UNCHANGED pin

\* set_output on real hardware, first half (lines 174-176): take io_lock and
\* drive the pin; when GPIO.output raises, the lock is released and the cache
\* is left alone
set_output_gpio(self, name, value, ok) ==
    /\ io_lock = Free
    /\ IF ok
       THEN /\ pin' = [pin EXCEPT ![name] = Bit(value)]
            /\ io_lock' = self
       ELSE UNCHANGED <<pin, io_lock>>

\* set_output, the cache update: line 177 and the release of io_lock on real
\* hardware, line 171 in simulation
set_output_cache(self, name, value) ==
    /\ latest' = [latest EXCEPT !.outputs[name] = Bit(value)]
    /\ IF hasBBIO THEN io_lock' = Free ELSE UNCHANGED io_lock

----------------------------------------------------------------------------
\* The background_reader thread

\* line 251: t, sat = read_lm35_temperature()
ReadTemperature ==
    /\ poller.pc = "read_temp"
    /\ LockFree
    /\ \E samples \in env.runs:
         /\ poller' = [poller EXCEPT !.pc = "read_light",
                         !.t = IF hasBBIO THEN read_lm35_temperature(samples)
                                          ELSE SimTemperature]
         /\ hist' = [hist EXCEPT !.adcFailed = hasBBIO /\ samples = FailedRun]
    /\ UNCHANGED <<hasBBIO, interval, latest, pin, io_lock, now, handler, threads, env>>

\* line 252: l = read_light()
ReadLight ==
    /\ poller.pc = "read_light"
    /\ LockFree
    /\ \E r \in env.lights:
         poller' = [poller EXCEPT !.pc = "read_btn1",
                      !.l = IF ~hasBBIO THEN SimLight
                            ELSE IF r = NoneVal THEN NoneVal ELSE Bit(r)]
    /\ UNCHANGED <<hasBBIO, interval, latest, pin, io_lock, now, handler, threads, env, hist>>

\* line 253, read_button_pressed lines 143-148: the first sample, taken
\* without io_lock
ReadButtonFirst ==
    /\ poller.pc = "read_btn1"
    /\ \E v1 \in env.buttons:
         poller' = IF hasBBIO /\ v1 = 0
                   THEN [poller EXCEPT !.pc = "read_btn2"]
                   ELSE [poller EXCEPT !.pc = "update", !.btn = FALSE]
    /\ UNCHANGED <<hasBBIO, interval, latest, pin, io_lock, now, handler, threads, env, hist>>

\* read_button_pressed lines 149-153: the confirmation sample after the debounce
ReadButtonSecond ==
    /\ poller.pc = "read_btn2"
    /\ \E v2 \in env.buttons:
         /\ (v2 = 0) => poller.button_counter < MaxPress
         /\ poller' = [poller EXCEPT !.pc = "update", !.btn = (v2 = 0)]
    /\ UNCHANGED <<hasBBIO, interval, latest, pin, io_lock, now, handler, threads, env, hist>>

\* lines 254-270: ts, the store update and the presence detector
UpdateState ==
    /\ poller.pc = "update"
    /\ LET counter == next_button_counter(poller.button_counter, poller.btn)
           required == required_button_count(interval)
           detected == car_detected(counter, required)
           run == IF poller.btn THEN hist.pressRun + 1 ELSE 0
           crun == IF poller.btn THEN hist.clearRun + 1 ELSE 0
       IN  /\ poller' = [poller EXCEPT !.pc = "heat_check", !.ts = now,
                            !.button_counter = counter, !.wrote_car = detected]
           /\ latest' = [latest EXCEPT !.light = poller.l,
                            !.car_parked = car_parked_after_tick(@, detected)]
           /\ hist' = [hist EXCEPT !.pressRun = run, !.clearRun = crun,
                          !.clearMet = @ \/ crun >= required,
                          !.parkedBy = IF detected THEN "poller" ELSE @,
                          !.parkedRun = IF detected THEN run ELSE @,
                          !.tickFailed = FALSE]
    /\ UNCHANGED <<hasBBIO, interval, pin, io_lock, now, handler, threads, env>>

\* what the two logics of lines 273-274 decide on: the tick's temperature,
\* and in the store the override flag, the light state, car_parked and the
\* timer deadline with whether it is still ahead
LogicInputs ==
    <<poller.t, latest.manual_override_heating, latest.light, latest.car_parked,
      latest.light_timer_until, latest.light_timer_until > poller.ts>>

\* apply_heating_logic lines 190-193
HeatingCheck ==
    /\ poller.pc = "heat_check"
    /\ poller' = [poller EXCEPT !.pc =
                    IF heating_may_act(latest.manual_override_heating, poller.t)
                    THEN "heat_decide" ELSE "light_logic",
                    !.saw_override = latest.manual_override_heating]
    /\ hist' = [hist EXCEPT !.heatFailed =
                   IF heating_may_act(latest.manual_override_heating, poller.t)
                   THEN @ ELSE NoneVal,
                   !.prevInputs = IF env.track THEN LogicInputs ELSE @,
                   !.sameInputs = env.track /\ hist.prevInputs = LogicInputs]
    /\ UNCHANGED <<hasBBIO, interval, latest, pin, io_lock, now, handler, threads, env>>

\* apply_heating_logic lines 196-199, up to the call of set_output
HeatingDecide ==
    /\ poller.pc = "heat_decide"
    /\ LET v == heating_decision(poller.t, latest.outputs.led2)
       IN  /\ poller' = [poller EXCEPT !.value = v,
                           !.pc = IF v = NoneVal THEN "light_logic" ELSE "heat_write"]
           /\ hist' = [hist EXCEPT !.heatFailed = IF v = @ THEN @ ELSE NoneVal]
    /\ UNCHANGED <<hasBBIO, interval, latest, pin, io_lock, now, handler, threads, env>>

\* apply_light_logic lines 211-233, up to the call of set_output
LightLogic ==
    /\ poller.pc = "light_logic"
    /\ LET rule == light_rule(latest.light, latest.car_parked,
                              latest.light_timer_until, poller.ts)
       IN  poller' = [poller EXCEPT !.rule = rule,
                        !.value = IF rule = 0 THEN NoneVal ELSE light_rule_value(rule),
                        !.pc = IF rule = 0 THEN "sleep" ELSE "light_write"]
    /\ UNCHANGED <<hasBBIO, interval, latest, pin, io_lock, now, handler, threads, env, hist>>

PollerOutput == IF poller.pc \in {"heat_write", "heat_cache"} THEN "led2" ELSE "led1"
PollerAfterOutput == IF poller.pc \in {"heat_write", "heat_cache"} THEN "light_logic" ELSE "sleep"

\* Faulty variant (the properties below must notice it): a write that raised still advances the cached level
PollerSetOutput_cache_on_failure ==
    /\ poller.pc \in {"heat_write", "light_write"}
    /\ IF hasBBIO
       THEN \E ok \in env.writes:
              /\ set_output_gpio(Poller, PollerOutput, poller.value, ok)
              /\ poller' = [poller EXCEPT !.pc =
                              IF ~ok THEN PollerAfterOutput
                              ELSE IF poller.pc = "heat_write" THEN "heat_cache"
                              ELSE "light_cache"]
              /\ hist' = IF poller.pc = "heat_write"
                         THEN [hist EXCEPT !.heatFailed =
                                 IF ok THEN NoneVal ELSE poller.value]
                         ELSE hist
              /\ latest' = IF ok THEN latest
                           ELSE [latest EXCEPT !.outputs[PollerOutput] = Bit(poller.value)]
       ELSE /\ set_output_cache(Poller, PollerOutput, poller.value)
            /\ poller' = [poller EXCEPT !.pc = PollerAfterOutput]
            /\ UNCHANGED <<pin, hist>>
    /\ UNCHANGED <<hasBBIO, interval, now, handler, threads, env>>

\* set_output(.., manual=False) called by the poller: lines 170-176; the
\* poller ignores the result (lines 197, 199, 217-231)
PollerSetOutput ==
    /\ poller.pc \in {"heat_write", "light_write"}
    /\ IF hasBBIO
       THEN \E ok \in env.writes:
              /\ set_output_gpio(Poller, PollerOutput, poller.value, ok)
              /\ poller' = [poller EXCEPT !.pc =
                              IF ~ok THEN PollerAfterOutput
                              ELSE IF poller.pc = "heat_write" THEN "heat_cache"
                              ELSE "light_cache"]
              /\ hist' = IF poller.pc = "heat_write"
                         THEN [hist EXCEPT !.heatFailed =
                                 IF ok THEN NoneVal ELSE poller.value]
                         ELSE hist
              /\ UNCHANGED latest
       ELSE /\ set_output_cache(Poller, PollerOutput, poller.value)
            /\ poller' = [poller EXCEPT !.pc = PollerAfterOutput]
            /\ UNCHANGED <<pin, hist>>
    /\ UNCHANGED <<hasBBIO, interval, now, handler, threads, env>>

\* set_output called by the poller: lines 177-178
PollerSetOutputCache ==
    /\ poller.pc \in {"heat_cache", "light_cache"}
    /\ set_output_cache(Poller, PollerOutput, poller.value)
    /\ poller' = [poller EXCEPT !.pc = PollerAfterOutput]
    /\ UNCHANGED <<hasBBIO, interval, pin, now, handler, threads, env, hist>>

\* line 277: time.sleep(interval); the tick's locals are dead from here
Sleep ==
    /\ poller.pc = "sleep"
    /\ poller' = [InitPoller EXCEPT !.button_counter = poller.button_counter]
    /\ UNCHANGED <<hasBBIO, interval, latest, pin, io_lock, now, handler, threads, env, hist>>

\* the pcs at which the poller is inside the try block of lines 250-274 and
\* outside set_output's own try block
InTry ==
    {"read_temp", "read_light", "read_btn1", "read_btn2", "update", "heat_check",
     "heat_decide", "heat_write", "light_logic", "light_write"}

\* Faulty variant (the properties below must notice it): the exception is not caught and ends the thread
PollerFault_uncaught ==
    /\ poller.pc \in InTry
    /\ poller' = [poller EXCEPT !.pc = "dead"]
    /\ hist' = [hist EXCEPT !.tickFailed = TRUE]
    /\ UNCHANGED <<hasBBIO, interval, latest, pin, io_lock, now, handler, threads, env>>

\* lines 275-276: an exception raised by a step of the tick is caught and
\* the rest of the tick is skipped; the loop goes on to line 277
PollerFault ==
    /\ poller.pc \in InTry
    /\ poller' = [poller EXCEPT !.pc = "sleep"]
    /\ hist' = [hist EXCEPT !.tickFailed = TRUE]
    /\ UNCHANGED <<hasBBIO, interval, latest, pin, io_lock, now, handler, threads, env>>

\* time passes
Tick ==
    /\ env.clock
    /\ now + ClockStep <= MaxTime
    /\ now' = now + ClockStep
    /\ UNCHANGED <<hasBBIO, interval, latest, pin, io_lock, poller, handler, threads, env, hist>>

----------------------------------------------------------------------------
\* The Flask request threads

Accept(h) == h \in threads /\ handler[h].pc = "idle"

ReadFaults == [LedNames -> {0, NoneVal}]

\* a manual heater command of another thread is between its first and last step
OtherToggleRunning(h) ==
    \E o \in Handlers \ {h}: handler[o].op = "toggle" /\ handler[o].pc \notin {"idle", "done"}

\* api_status, lines 286-302
api_status(h) ==
    /\ Accept(h)
    /\ LockFree
    /\ \E reads \in ReadFaults:
         handler' = [handler EXCEPT ![h] =
                       [IdleHandler EXCEPT !.pc = "done", !.op = "status",
                          !.led2 = get_outputs_state(reads).led2,
                          !.settled = hist.onSettled]]
    /\ UNCHANGED <<threads, env>>
    /\ UNCHANGED <<hasBBIO, interval, latest, pin, io_lock, now, poller, hist>>

\* api_measure lines 307-309: the three sensor reads
api_measure_read(h) ==
    /\ Accept(h)
    /\ LockFree
    /\ \E r \in env.lights:
         handler' = [handler EXCEPT ![h] =
                       [IdleHandler EXCEPT !.pc = "ms_store", !.op = "measure",
                          !.l = IF ~hasBBIO THEN SimLight
                                ELSE IF r = NoneVal THEN NoneVal ELSE Bit(r)]]
    /\ UNCHANGED <<threads, env>>
    /\ UNCHANGED <<hasBBIO, interval, latest, pin, io_lock, now, poller, hist>>

\* api_measure lines 312-316: the store update
api_measure_store(h) ==
    /\ handler[h].pc = "ms_store"
    /\ latest' = [latest EXCEPT !.light = handler[h].l]
    /\ handler' = [handler EXCEPT ![h].pc = "ms_ret"]
    /\ UNCHANGED <<hasBBIO, interval, pin, io_lock, now, poller, threads, env, hist>>

\* api_measure lines 318-329: the response
api_measure_return(h) ==
    /\ handler[h].pc = "ms_ret"
    /\ LockFree
    /\ handler' = [handler EXCEPT ![h].pc = "done"]
    /\ UNCHANGED <<hasBBIO, interval, latest, pin, io_lock, now, poller, threads, env, hist>>

\* api_toggle lines 338-349: the request is validated
api_toggle_begin(h) ==
    /\ Accept(h)
    /\ \E name \in env.names, v \in ToggleValues:
         IF name # "led2"
         THEN /\ handler' = [handler EXCEPT ![h] =
                               [IdleHandler EXCEPT !.pc = "done", !.op = "toggle_bad",
                                  !.ok = FALSE]]
              /\ UNCHANGED hist
         ELSE /\ handler' = [o \in Handlers |->
                               IF o = h
                               THEN [IdleHandler EXCEPT !.pc = "so_write", !.op = "toggle",
                                       !.value = Bit(v),
                                       !.settled = ~OtherToggleRunning(h)]
                               ELSE [handler[o] EXCEPT !.settled =
                                       IF handler[o].op = "toggle" THEN FALSE ELSE @]]
              /\ hist' = [hist EXCEPT !.onSettled = FALSE]
    /\ UNCHANGED <<threads, env>>
    /\ UNCHANGED <<hasBBIO, interval, latest, pin, io_lock, now, poller>>

HandlerOutput(h) == IF handler[h].op = "toggle" THEN "led2" ELSE "led1"
HandlerAfterOutput(h) == IF handler[h].op = "toggle" THEN "tg_flag" ELSE "lp_ret"

\* set_output called by api_toggle (line 351) or api_light_pulse (lines 384,
\* 389): lines 170-176; api_toggle answers 500 when it fails, api_light_pulse
\* ignores the result
HandlerSetOutput(h) ==
    /\ handler[h].pc = "so_write"
    /\ IF hasBBIO
       THEN \E ok \in env.writes:
              /\ set_output_gpio(h, HandlerOutput(h), handler[h].value, ok)
              /\ handler' = [handler EXCEPT ![h].ok = ok,
                               ![h].pc = IF ok THEN "so_cache"
                                         ELSE IF handler[h].op = "toggle" THEN "done"
                                         ELSE "lp_ret"]
              /\ UNCHANGED latest
       ELSE /\ set_output_cache(h, HandlerOutput(h), handler[h].value)
            /\ handler' = [handler EXCEPT ![h].pc = HandlerAfterOutput(h)]
            /\ UNCHANGED pin
    /\ UNCHANGED <<hasBBIO, interval, now, poller, threads, env, hist>>

\* set_output called by a handler: lines 177-178
HandlerSetOutputCache(h) ==
    /\ handler[h].pc = "so_cache"
    /\ set_output_cache(h, HandlerOutput(h), handler[h].value)
    /\ handler' = [handler EXCEPT ![h].pc = HandlerAfterOutput(h)]
    /\ UNCHANGED <<hasBBIO, interval, pin, now, poller, threads, env, hist>>

\* api_toggle lines 356-357
api_toggle_flag(h) ==
    /\ handler[h].pc = "tg_flag"
    /\ latest' = [latest EXCEPT !.manual_override_heating =
                     override_from_toggle(handler[h].value)]
    /\ handler' = [handler EXCEPT ![h].pc = "tg_ret"]
    /\ UNCHANGED <<hasBBIO, interval, pin, io_lock, now, poller, threads, env, hist>>

\* api_toggle lines 359-364: the response
api_toggle_return(h) ==
    /\ handler[h].pc = "tg_ret"
    /\ LockFree
    /\ handler' = [handler EXCEPT ![h].pc = "done"]
    /\ hist' = [hist EXCEPT !.onSettled = handler[h].settled /\ handler[h].value = 1]
    /\ UNCHANGED <<hasBBIO, interval, latest, pin, io_lock, now, poller, threads, env>>

\* api_light_pulse lines 374-381 and 391-396: the reads, the rejection of an
\* unknown light state and the answer when the car is parked in the dark
api_light_pulse_read(h) ==
    /\ Accept(h)
    /\ LET light == latest.light
           car == latest.car_parked
           dur == pulse_duration(light, car)
       IN  handler' = [handler EXCEPT ![h] =
                         [IdleHandler EXCEPT !.op = "pulse", !.value = 1,
                            !.ok = light # NoneVal,
                            !.now = IF light = NoneVal \/ dur = 0 THEN 0 ELSE now,
                            !.dur = IF light = NoneVal THEN 0 ELSE dur,
                            !.pc = IF light = NoneVal \/ dur = 0 THEN "done"
                                   ELSE "lp_timer"]]
    /\ UNCHANGED <<threads, env>>
    /\ UNCHANGED <<hasBBIO, interval, latest, pin, io_lock, now, poller, hist>>

\* api_light_pulse lines 383 and 388: the deadline is stored
api_light_pulse_timer(h) ==
    /\ handler[h].pc = "lp_timer"
    /\ latest' = [latest EXCEPT !.light_timer_until = handler[h].now + handler[h].dur]
    /\ handler' = [handler EXCEPT ![h].pc = "so_write"]
    /\ UNCHANGED <<hasBBIO, interval, pin, io_lock, now, poller, threads, env, hist>>

\* api_light_pulse lines 385 and 390: the response
api_light_pulse_return(h) ==
    /\ handler[h].pc = "lp_ret"
    /\ handler' = [handler EXCEPT ![h].pc = "done"]
    /\ UNCHANGED <<hasBBIO, interval, latest, pin, io_lock, now, poller, threads, env, hist>>

\* api_car lines 405-416
api_car(h) ==
    /\ Accept(h)
    /\ \E val \in CarValues:
         LET parked == car_from_command(Bit(val))
         IN  /\ latest' = [latest EXCEPT !.car_parked = parked]
             /\ handler' = [handler EXCEPT ![h] =
                              [IdleHandler EXCEPT !.pc = "done", !.op = "car",
                                 !.value = Bit(val)]]
             /\ hist' = IF parked
                        THEN [hist EXCEPT !.parkedBy = "api"]
                        ELSE [hist EXCEPT !.parkedBy = "none", !.clearRun = 0,
                                !.clearMet = FALSE]
    /\ UNCHANGED <<threads, env>>
    /\ UNCHANGED <<hasBBIO, interval, pin, io_lock, now, poller>>

\* the response has been sent; the thread serves the next request
Respond(h) ==
    /\ handler[h].pc = "done"
    /\ handler' = [handler EXCEPT ![h] = IdleHandler]
    /\ UNCHANGED <<hasBBIO, interval, latest, pin, io_lock, now, poller, threads, env, hist>>

----------------------------------------------------------------------------
\* The specifications.  The heating logic, the light logic and the presence
\* detector read disjoint inputs, so each is explored with the inputs of the
\* others held to one value; the steps of a poll tick are always all there.

PollerHeating ==
    \/ ReadTemperature
    \/ HeatingCheck
    \/ HeatingDecide

PollerRest ==
    \/ ReadLight
    \/ ReadButtonFirst
    \/ UpdateState
    \/ LightLogic
    \/ PollerSetOutput
    \/ PollerSetOutputCache
    \/ Sleep

ManualHeater(h) ==
    \/ api_toggle_begin(h)
    \/ HandlerSetOutput(h)
    \/ HandlerSetOutputCache(h)
    \/ api_toggle_flag(h)
    \/ api_toggle_return(h)

LightPulse(h) ==
    \/ api_light_pulse_read(h)
    \/ api_light_pulse_timer(h)
    \/ api_light_pulse_return(h)

Measure(h) ==
    \/ api_measure_read(h)
    \/ api_measure_store(h)
    \/ api_measure_return(h)

\* Heating: two request threads, every temperature and light reading, failing
\* writes, manual heater commands and status queries; button released, no
\* time passing
EnvHeating ==
    [runs |-> ADCRuns, lights |-> PinReads, buttons |-> {1}, writes |-> BOOLEAN,
     names |-> ToggleNames, clock |-> FALSE, track |-> FALSE]

InitHeating ==
    /\ InitState
    /\ interval = 200
    /\ threads = Handlers
    /\ env = EnvHeating

NextHeating ==
    \/ PollerHeating
    \/ PollerRest
    \/ \E h \in Handlers:
         \/ ManualHeater(h)
         \/ api_status(h)
         \/ Respond(h)

Spec == InitHeating /\ [][NextHeating]_vars

\* Presence: every button reading and every interval, explicit presence
\* commands and forced measurements on two request threads; one temperature,
\* dark, writes succeed, no time passing
EnvPresence ==
    [runs |-> {ConstRun(420)}, lights |-> {1}, buttons |-> PinReads, writes |-> {TRUE},
     names |-> ToggleNames, clock |-> FALSE, track |-> FALSE]

InitPresence ==
    /\ InitState
    /\ interval \in Intervals
    /\ threads = Handlers
    /\ env = EnvPresence

NextPresence ==
    \/ PollerHeating
    \/ PollerRest
    \/ ReadButtonSecond
    \/ \E h \in Handlers:
         \/ Measure(h)
         \/ api_car(h)
         \/ Respond(h)

SpecPresence == InitPresence /\ [][NextPresence]_vars

\* Light: every light reading, failing writes, passing time, light pulses,
\* explicit presence commands and forced measurements served one at a time,
\* each concurrently with the poller; one temperature, button released
EnvLight ==
    [runs |-> {ConstRun(420)}, lights |-> PinReads, buttons |-> {1}, writes |-> BOOLEAN,
     names |-> ToggleNames, clock |-> TRUE, track |-> FALSE]

InitLight ==
    /\ InitState
    /\ interval = 200
    /\ threads = {"h1"}
    /\ env = EnvLight

NextLight ==
    \/ PollerHeating
    \/ PollerRest
    \/ Tick
    \/ \E h \in Handlers:
         \/ LightPulse(h)
         \/ HandlerSetOutput(h)
         \/ HandlerSetOutputCache(h)
         \/ Measure(h)
         \/ api_car(h)
         \/ Respond(h)

SpecLight == InitLight /\ [][NextLight]_vars

\* Repeated evaluation: the poller alone, every temperature and light
\* reading, writes succeed; the inputs of each evaluation of the two logics
\* are compared with those of the evaluation before
EnvRepeat ==
    [runs |-> ADCRuns, lights |-> PinReads, buttons |-> {1}, writes |-> {TRUE},
     names |-> ToggleNames, clock |-> FALSE, track |-> TRUE]

InitRepeat ==
    /\ InitState
    /\ interval = 200
    /\ threads = {}
    /\ env = EnvRepeat

NextRepeat ==
    \/ PollerHeating
    \/ PollerRest

SpecRepeat == InitRepeat /\ [][NextRepeat]_vars

\* The board: the poller started with a 2 s or a 3 s interval, temperature
\* reads of 21 degrees or with every sample failing, every button reading,
\* manual heater commands of one request thread; dark, writes succeed
SlowIntervals == {2000, 3000}

EnvBoard ==
    [runs |-> {FailedRun, ConstRun(420)}, lights |-> {1}, buttons |-> PinReads,
     writes |-> {TRUE}, names |-> ToggleNames, clock |-> FALSE, track |-> FALSE]

InitBoard ==
    /\ InitState
    /\ interval \in SlowIntervals
    /\ threads = {"h1"}
    /\ env = EnvBoard

NextBoard ==
    \/ PollerHeating
    \/ PollerRest
    \/ ReadButtonSecond
    \/ \E h \in Handlers:
         \/ ManualHeater(h)
         \/ Respond(h)

SpecBoard == InitBoard /\ [][NextBoard]_vars

\* Resilience: any step of a tick may raise; every temperature, failing
\* writes and manual heater commands of one request thread, which compete
\* with the poller for io_lock.  The poller thread is scheduled again and
\* again, time.sleep returns, a thread waiting for io_lock gets it in the
\* end, and a set_output that holds io_lock runs to its release.
EnvResilience ==
    [runs |-> ADCRuns, lights |-> {1}, buttons |-> {1}, writes |-> BOOLEAN,
     names |-> ToggleNames, clock |-> FALSE, track |-> FALSE]

InitResilience ==
    /\ InitState
    /\ interval = 200
    /\ threads = {"h1"}
    /\ env = EnvResilience

PollerNext ==
    \/ PollerHeating
    \/ PollerRest
    \/ PollerFault

NextResilience ==
    \/ PollerNext
    \/ \E h \in Handlers:
         \/ ManualHeater(h)
         \/ Respond(h)

FairResilience ==
    /\ SF_vars(PollerNext)
    /\ \A h \in Handlers: WF_vars(HandlerSetOutputCache(h))

SpecResilience == InitResilience /\ [][NextResilience]_vars /\ FairResilience

----------------------------------------------------------------------------
\* Properties of the heating logic and of set_output

\* a step of the background_reader thread
PollerStep == poller' # poller

HeaterOn == latest.outputs.led2 = 1 \/ pin.led2 = 1
HeaterTurnsOn ==
    \/ latest.outputs.led2 = 0 /\ latest'.outputs.led2 = 1
    \/ pin.led2 = 0 /\ pin'.led2 = 1
HeaterTurnsOff ==
    \/ latest.outputs.led2 = 1 /\ latest'.outputs.led2 = 0
    \/ pin.led2 = 1 /\ pin'.led2 = 0
HeaterUnchanged == latest'.outputs.led2 = latest.outputs.led2 /\ pin'.led2 = pin.led2

\* C1: a step of the poller switches the heater (cached level or pin) from off
\* to on only when the tick's temperature is below HEAT_ON_THRESHOLD, from on to
\* off only when it is at or above HEAT_OFF_THRESHOLD, and leaves the heater as
\* it was when the tick's temperature lies in [HEAT_ON_THRESHOLD,
\* HEAT_OFF_THRESHOLD).
HeatingHysteresis ==
    [][PollerStep =>
         /\ HeaterTurnsOn => (poller.t # NoneVal /\ poller.t < HEAT_ON_THRESHOLD)
         /\ HeaterTurnsOff => poller.t >= HEAT_OFF_THRESHOLD
         /\ (HEAT_ON_THRESHOLD <= poller.t /\ poller.t < HEAT_OFF_THRESHOLD)
               => HeaterUnchanged]_vars

\* the poller has just switched a heater off that it had found on at 21 degrees
\* or more
HeatingHysteresisWitness ==
    /\ poller.pc = "light_logic"
    /\ poller.value = 0
    /\ poller.t >= HEAT_OFF_THRESHOLD
    /\ ~HeaterOn

\* C2: a status query answered after a manual heater-on command has completed,
\* with no other manual heater command since, reports the heater on.
StatusAfterHeaterOn ==
    \A h \in Handlers:
        (handler[h].pc = "done" /\ handler[h].op = "status" /\ handler[h].settled)
            => handler[h].led2 = 1

\* C3: on real hardware, whenever no set_output holds io_lock, the cached level
\* of each output equals the level of its pin, which is the last successful
\* GPIO.output.
CacheMatchesPin ==
    (hasBBIO /\ io_lock = Free) => \A n \in LedNames: latest.outputs[n] = pin[n]

\* both request threads and the poller have been through set_output on the
\* heater pin, a manual command is waiting for the lock and the lock is free
CacheMatchesPinWitness ==
    /\ hasBBIO
    /\ io_lock = Free
    /\ handler["h1"].pc = "tg_flag"
    /\ handler["h2"].pc = "so_write"
    /\ poller.pc = "heat_write"
    /\ pin.led2 = 1
    /\ pin.led1 = 0

OverrideSetBy(v) ==
    \E h \in Handlers:
        /\ handler[h].pc = "tg_flag"
        /\ handler[h].value = v
        /\ handler'[h].pc = "tg_ret"

\* C4: manual_override_heating becomes true only in the flag step of a manual
\* heater-on command and false only in the flag step of a manual heater-off
\* command; a poll tick that evaluates the heating logic with the flag set goes
\* on to the light logic without touching the heater, and a poll tick only
\* calls set_output for the heater when it evaluated the flag as clear.
StickyOverride ==
    [][/\ (~latest.manual_override_heating /\ latest'.manual_override_heating)
            => OverrideSetBy(1)
       /\ (latest.manual_override_heating /\ ~latest'.manual_override_heating)
            => OverrideSetBy(0)
       /\ (PollerStep /\ poller.pc = "heat_check" /\ latest.manual_override_heating)
            => (poller'.pc = "light_logic" /\ HeaterUnchanged)
       /\ (PollerStep /\ poller.pc = "heat_write") => ~poller.saw_override]_vars

\* the tick found the flag set while the heater was on at 21 degrees or more,
\* and has passed the heating logic
StickyOverrideWitness ==
    /\ poller.pc = "light_logic"
    /\ poller.saw_override
    /\ poller.t >= HEAT_OFF_THRESHOLD
    /\ latest.outputs.led2 = 1

\* the temperature of the tick still calls for writing level v to the heater
StillCallsFor(v) ==
    IF v = 1 THEN poller.t < HEAT_ON_THRESHOLD ELSE poller.t >= HEAT_OFF_THRESHOLD

\* C11: a set_output whose GPIO write raises changes neither a pin nor the
\* cache; in a request it is reported (ok is false) and a manual heater
\* command ends there, so manual_override_heating only ever changes in the
\* flag step of a command whose write succeeded; and when the poller's heater
\* write failed, the next tick that decides with a temperature still calling
\* for that level, and with the cache still at the other level, calls
\* set_output with the same level again.
FailedWriteKeepsState ==
    [][/\ \A h \in Handlers:
            /\ (hasBBIO /\ handler[h].pc = "so_write"
                   /\ handler'[h].pc \notin {"so_write", "so_cache"}) =>
                  /\ ~handler'[h].ok
                  /\ UNCHANGED <<latest, pin>>
                  /\ handler[h].op = "toggle" => handler'[h].pc = "done"
            /\ (handler[h].pc = "tg_flag" /\ handler'[h].pc # "tg_flag") =>
                  handler[h].ok
       /\ latest'.manual_override_heating # latest.manual_override_heating =>
            \E h \in Handlers: handler[h].pc = "tg_flag" /\ handler'[h].pc = "tg_ret"
       /\ (PollerStep /\ hasBBIO /\ poller.pc \in {"heat_write", "light_write"}
              /\ poller'.pc \notin {"heat_cache", "light_cache"}) =>
            UNCHANGED <<latest, pin>>
       /\ (PollerStep /\ poller.pc = "heat_decide" /\ hist.heatFailed # NoneVal
              /\ latest.outputs.led2 # hist.heatFailed
              /\ StillCallsFor(hist.heatFailed)) =>
            /\ poller'.pc = "heat_write"
            /\ poller'.value = hist.heatFailed]_vars

\* a manual heater-on command has been answered with a failure and has left
\* the flag clear, and the poller, whose heater-on write failed on the tick
\* before, is about to call set_output with level 1 again
FailedWriteKeepsStateWitness ==
    /\ poller.pc = "heat_write"
    /\ poller.value = 1
    /\ hist.heatFailed = 1
    /\ latest.outputs.led2 = 0
    /\ ~latest.manual_override_heating
    /\ \E h \in Handlers:
         handler[h].pc = "done" /\ handler[h].op = "toggle" /\ ~handler[h].ok
             /\ handler[h].value = 1

\* C12: the poller is never anywhere but in its loop, every tick, failed or
\* not, reaches the sleep of line 277, and after every sleep the loop begins
\* another tick.
PollerKeepsTicking ==
    /\ [](poller.pc \in InTry \union {"heat_cache", "light_cache", "sleep"})
    /\ []<>(poller.pc = "sleep")
    /\ [](poller.pc = "sleep" => <>(poller.pc = "read_temp"))

\* a tick ended in the except clause and the next tick has read its
\* temperature
PollerKeepsTickingWitness ==
    /\ hist.tickFailed
    /\ poller.pc = "read_light"
    /\ poller.t # NoneVal

\* C13: when the two logics are evaluated with the inputs of the evaluation
\* before (temperature, override flag, light state, car_parked, timer), the
\* tick calls set_output neither for the heater nor for the light.
LogicIdempotent ==
    hist.sameInputs => poller.pc \notin {"heat_write", "light_write"}

\* C15: the steps of a tick whose temperature read had every ADC sample fail
\* leave the heater, pin and cache, as it was.
FailedReadLeavesHeater ==
    [][(PollerStep /\ hist.adcFailed /\ poller.pc # "read_temp") => HeaterUnchanged]_vars

\* the threads that are inside an operation on the hardware: the holder of
\* io_lock, and the poller between the two samples of read_button_pressed
InHardware ==
    {th \in Handlers \union {Poller}:
        io_lock = th \/ (th = Poller /\ poller.pc = "read_btn2")}

\* C16: at most one thread is inside an operation on the hardware.
HardwareMutex == Cardinality(InHardware) <= 1

\* C20: when no manual heater command is in progress and
\* manual_override_heating is set, the cached heater level is 1.
OverrideImpliesHeaterOn ==
    ((\A h \in Handlers:
         ~(handler[h].op = "toggle" /\ handler[h].pc \notin {"idle", "done"}))
       /\ latest.manual_override_heating)
        => latest.outputs.led2 = 1

----------------------------------------------------------------------------
\* Properties of the presence detector

Required == required_button_count(interval)

\* C5: in the poller's update step a released button resets the counter to 0,
\* and the poller writes car_parked = True exactly when the run of consecutive
\* pressed samples, this one included, has reached required_button_count.
PressCountDecides ==
    [][(PollerStep /\ poller.pc = "update") =>
         /\ (~poller.btn) => poller'.button_counter = 0
         /\ poller'.wrote_car <=> hist'.pressRun >= Required
         /\ poller'.wrote_car => latest'.car_parked]_vars

\* the tenth consecutive pressed sample at the 200 ms interval has just set
\* car_parked
PressCountDecidesWitness ==
    /\ interval = 200
    /\ poller.pc = "heat_check"
    /\ poller.wrote_car
    /\ poller.button_counter = 10
    /\ hist.pressRun = 10
    /\ latest.car_parked

\* C6 as stated: car_parked implies that a run of at least required_button_count
\* consecutive pressed samples was observed since the last explicit clear.
ParkedImpliesPressesSinceClear ==
    latest.car_parked => hist.clearMet

\* C6 amended: car_parked implies that True was last written to it either by
\* api_car or by a poll tick that ended a run of at least required_button_count
\* consecutive pressed samples.
ParkedImpliesCommandOrPresses ==
    latest.car_parked =>
        \/ hist.parkedBy = "api"
        \/ hist.parkedBy = "poller" /\ hist.parkedRun >= Required

\* the poller has set car_parked again after an explicit clear, on a run of
\* pressed samples that began before the clear
ParkedImpliesCommandOrPressesWitness ==
    /\ latest.car_parked
    /\ hist.parkedBy = "poller"
    /\ hist.clearRun < Required
    /\ hist.clearRun > 0
    /\ ~hist.clearMet

CarCleared == latest.car_parked /\ ~latest'.car_parked

\* C7: car_parked goes from true to false only in an api_car step whose command
\* value is 1; no step of the poller and no step of api_measure changes it from
\* true to false, and api_measure never changes it at all.
ParkedSticky ==
    [][/\ CarCleared =>
            \E h \in Handlers:
                /\ handler[h].pc = "idle"
                /\ handler'[h].op = "car"
                /\ handler'[h].value = 1
       /\ PollerStep => ~CarCleared
       /\ (\E h \in Handlers: handler'[h] # handler[h] /\ handler'[h].op = "measure")
            => latest'.car_parked = latest.car_parked]_vars

\* car_parked has survived a poll tick with the button released and a forced
\* measurement
ParkedStickyWitness ==
    /\ latest.car_parked
    /\ hist.parkedBy = "poller"
    /\ poller.pc = "heat_check"
    /\ ~poller.btn
    /\ poller.button_counter = 0
    /\ \E h \in Handlers: handler[h].pc = "done" /\ handler[h].op = "measure"

\* C14: the required press count is BUTTON_PRESSED_MIN_S / interval rounded
\* down, and at least 1, whatever the interval; so a tick that has just run
\* the presence detector has written car_parked only if its button read was
\* pressed.
PressCountAtLeastOne ==
    poller.pc = "heat_check" =>
        /\ Required = (IF BUTTON_PRESSED_MIN_S \div interval < 1 THEN 1
                       ELSE BUTTON_PRESSED_MIN_S \div interval)
        /\ poller.wrote_car => poller.btn

----------------------------------------------------------------------------
\* Properties of the light logic and of the light pulse

TimerAhead(t) == latest.light_timer_until > t

\* C8: with a known light state apply_light_logic always calls set_output, with
\* level 1 exactly when (car_parked and dark) or the timer deadline is later than
\* the tick's timestamp, and set_output, when it succeeds, leaves that level on
\* the pin and in the cache.
LightRules ==
    [][PollerStep =>
         /\ (poller.pc = "light_logic" /\ latest.light \in {0, 1}) =>
               /\ poller'.pc = "light_write"
               /\ poller'.value =
                     IF (latest.car_parked /\ latest.light = 1) \/ TimerAhead(poller.ts)
                     THEN 1 ELSE 0
         /\ (poller.pc = "light_write" /\ poller'.pc = "light_cache") =>
               pin'.led1 = poller.value
         /\ (poller.pc \in {"light_write", "light_cache"} /\ poller'.pc = "sleep"
                /\ (hasBBIO => poller.pc = "light_cache")) =>
               latest'.outputs.led1 = poller.value]_vars

\* the timer rule has switched the light on in bright light with no car
LightRulesWitness ==
    /\ poller.pc = "sleep"
    /\ poller.rule = 2
    /\ latest.light = 0
    /\ ~latest.car_parked
    /\ latest.outputs.led1 = 1
    /\ now > 0

PulseBegins(h) == handler[h].pc = "idle" /\ handler'[h].op = "pulse"

\* C9: api_light_pulse read at time now: bright gives duration 10, dark without
\* a car duration 20, and the next step of the request stores now + duration as
\* the deadline; dark with the car parked gives duration 0 and the request ends
\* without touching the deadline or an output; an unknown light state is
\* rejected, likewise without touching them.
PulseDurations ==
    [][\A h \in Handlers:
         /\ (PulseBegins(h) /\ latest.light = 0) =>
               /\ handler'[h].dur = 10
               /\ handler'[h].now = now
               /\ handler'[h].pc = "lp_timer"
         /\ (PulseBegins(h) /\ latest.light = 1 /\ ~latest.car_parked) =>
               /\ handler'[h].dur = 20
               /\ handler'[h].now = now
               /\ handler'[h].pc = "lp_timer"
         /\ (PulseBegins(h) /\ latest.light = 1 /\ latest.car_parked) =>
               /\ handler'[h].dur = 0
               /\ handler'[h].ok
               /\ handler'[h].pc = "done"
               /\ UNCHANGED <<latest, pin>>
         /\ (PulseBegins(h) /\ latest.light = NoneVal) =>
               /\ ~handler'[h].ok
               /\ handler'[h].pc = "done"
               /\ UNCHANGED <<latest, pin>>
         /\ (handler[h].pc = "lp_timer" /\ handler'[h].pc # "lp_timer") =>
               /\ latest'.light_timer_until = handler[h].now + handler[h].dur
               /\ handler'[h].pc = "so_write"
               /\ handler'[h].value = 1]_vars

\* a 20 second pulse requested at a time later than 0 has stored its deadline
PulseDurationsWitness ==
    \E h \in Handlers:
        /\ handler[h].pc = "so_write"
        /\ handler[h].op = "pulse"
        /\ handler[h].dur = 20
        /\ handler[h].now > 0
        /\ latest.light_timer_until = handler[h].now + 20

\* C17: the light state that the light logic of a tick decides on is the one
\* that tick read and stored (the heating logic is handed the tick's
\* temperature as an argument).
LogicSeesOwnReadings ==
    [][(PollerStep /\ poller.pc = "light_logic") => latest.light = poller.l]_vars

\* the condition of each of the four rules of apply_light_logic, on the store
\* as the light logic of the tick finds it
RuleHolds(i) ==
    CASE i = 1 -> latest.car_parked /\ latest.light = 1
      [] i = 2 -> TimerAhead(poller.ts)
      [] i = 3 -> latest.light = 0
      [] i = 4 -> latest.light = 1 /\ ~latest.car_parked

RulesHolding == {i \in 1..4: RuleHolds(i)}

\* C18 as stated: whatever car_parked, the light state (dark, bright or
\* unknown) and the timer are, exactly one of the four rules fires.
ExactlyOneRuleFires ==
    [][(PollerStep /\ poller.pc = "light_logic") => poller'.rule \in 1..4]_vars

\* C18 amended: whatever car_parked, the light state and the timer are, the
\* rule that fires is the first of the four whose condition holds, and it
\* alone decides the level set_output is called with; no rule fires, and
\* set_output is not called, exactly when the light state is unknown and no
\* timer deadline is ahead.
FirstMatchingRuleFires ==
    [][(PollerStep /\ poller.pc = "light_logic") =>
         /\ (RulesHolding = {}) <=> (latest.light = NoneVal /\ ~TimerAhead(poller.ts))
         /\ IF RulesHolding = {}
            THEN poller'.rule = 0 /\ poller'.pc = "sleep"
            ELSE /\ poller'.rule \in RulesHolding
                 /\ \A i \in RulesHolding: poller'.rule <= i
                 /\ poller'.pc = "light_write"
                 /\ poller'.value = (IF poller'.rule <= 2 THEN 1 ELSE 0)]_vars

\* with the car parked, the light state unknown and no pulse ever requested,
\* the light logic has ended without a rule firing
FirstMatchingRuleFiresWitness ==
    /\ poller.pc = "sleep"
    /\ poller.rule = 0
    /\ poller.l = NoneVal
    /\ latest.light = NoneVal
    /\ latest.car_parked
    /\ latest.light_timer_until = 0

\* C19: with the light state unknown and no timer deadline ahead, car parked
\* or not, apply_light_logic ends without calling set_output and leaves the
\* store (light and heater level, timer deadline) and the pins as they were.
UnknownLightNoTimerNoOp ==
    [][(PollerStep /\ poller.pc = "light_logic" /\ latest.light = NoneVal
          /\ ~TimerAhead(poller.ts)) =>
         /\ poller'.pc = "sleep"
         /\ UNCHANGED <<latest, pin>>]_vars

\* a pulse has expired, the light state is unknown, and the light logic has
\* left the light on and the expired deadline in place
UnknownLightNoTimerNoOpWitness ==
    /\ poller.pc = "sleep"
    /\ poller.rule = 0
    /\ poller.l = NoneVal
    /\ latest.light = NoneVal
    /\ latest.light_timer_until # 0
    /\ latest.light_timer_until <= poller.ts
    /\ latest.outputs.led1 = 1
    /\ pin.led1 = (IF hasBBIO THEN 1 ELSE 0)

\* C10: the poller's light logic never writes the light output off at a moment
\* when light_timer_until is later than the current time.
NoLightOffDuringTimer ==
    [][(PollerStep /\ poller.pc = "light_write" /\ poller.value = 0
          /\ poller'.pc = (IF hasBBIO THEN "light_cache" ELSE "sleep"))
         => ~TimerAhead(now)]_vars

====
